---- MODULE Spec2Model ----
(***************************************************************************)
(* Model of the CKD risk prediction API (src/main.py): the feature         *)
(* extractor, the heuristic risk scorer and the create_patient / predict   *)
(* handlers with their audit trail and SQLite connections.                 *)
(*                                                                         *)
(* Numbers.  The code computes in Python floats.  The model computes in    *)
(* exact rationals [n, d] (lowest terms, d > 0).  The input values below   *)
(* are chosen so that on every modelled request the exact result and the   *)
(* float result of the code agree (tier, rounded probability, ranking).    *)
(***************************************************************************)
EXTENDS Integers, Sequences, FiniteSets, TLC

\* Python's None.
None == [kind |-> "None"]

(***************************************************************************)
(* Bounds of the model.                                                    *)
(***************************************************************************)
\* longest measurement sequence (kft / vitals / lab_vitals) a request carries
MaxLen == 2
\* rows the patients table may hold
MaxPatients == 2
\* records the audit trail (store and table) may hold
MaxPredictions == 2

(***************************************************************************)
(* Exact rational arithmetic standing for the float arithmetic.            *)
(***************************************************************************)
\* Let(F, x) is F(x) with x evaluated once, as an assignment to a local does;
\* Let2 likewise for two values.
Let(F(_), x) == CHOOSE r \in {F(v) : v \in {x}} : TRUE
Let2(F(_, _), x, y) == CHOOSE r \in {F(v[1], v[2]) : v \in {<<x, y>>}} : TRUE

Abs(x) == IF x < 0 THEN -x ELSE x

RECURSIVE Gcd(_, _)
Gcd(a, b) == IF b = 0 THEN a ELSE Let(LAMBDA r : Gcd(b, r), a % b)

Rat(n, d) ==
    Let2(LAMBDA num, den :
            Let(LAMBDA g : [n |-> IF num < 0 THEN -(Abs(num) \div g) ELSE num \div g,
                            d |-> den \div g],
                Gcd(Abs(num), den)),
         n, d)

RAdd(a, b) == Let2(LAMBDA x, y : Rat(x.n * y.d + y.n * x.d, x.d * y.d), a, b)
RSub(a, b) == Let2(LAMBDA x, y : Rat(x.n * y.d - y.n * x.d, x.d * y.d), a, b)
RMul(a, b) == Let2(LAMBDA x, y : Rat(x.n * y.n, x.d * y.d), a, b)
RDivInt(a, k) == Let(LAMBDA x : Rat(x.n, x.d * k), a)
RLt(a, b) == Let2(LAMBDA x, y : x.n * y.d < y.n * x.d, a, b)
RGt(a, b) == RLt(b, a)
RGe(a, b) == ~RLt(a, b)
\* Python max(a, b) / min(a, b): the first argument wins unless the second
\* is strictly greater / smaller.
RMax(a, b) == Let2(LAMBDA x, y : IF RGt(y, x) THEN y ELSE x, a, b)
RMin(a, b) == Let2(LAMBDA x, y : IF RLt(y, x) THEN y ELSE x, a, b)

Zero == [n |-> 0, d |-> 1]

RECURSIVE RSum(_)
RSum(s) ==
    Let(LAMBDA q : IF Len(q) = 0 THEN Zero
                   ELSE RAdd(RSum(SubSeq(q, 1, Len(q) - 1)), q[Len(q)]),
        s)

\* round(x, 2) of a non-negative x: the nearest multiple of 1/100, an exact
\* half going to the even neighbour.
Round2(x) ==
    Let(LAMBDA v :
            Let2(LAMBDA fl, rem2 :
                    Rat(IF rem2 > v.d THEN fl + 1
                        ELSE IF rem2 < v.d THEN fl
                        ELSE IF fl % 2 = 0 THEN fl ELSE fl + 1, 100),
                 (v.n * 100) \div v.d, 2 * ((v.n * 100) % v.d)),
        x)

(***************************************************************************)
(* Request schemas.  Only the fields the extractor and the scorer read are *)
(* kept.  An Optional[Union[X, List[X]]] field is None, [kind |-> "obj"]   *)
(* or [kind |-> "list"].                                                   *)
(***************************************************************************)
Obj(v) == [kind |-> "obj", val |-> v]
List(s) == [kind |-> "list", items |-> s]

\* bool(x) of an Optional[Union[model, List[model]]] or Optional[List] value
Truthy(x) ==
    CASE x.kind = "None" -> FALSE
      [] x.kind = "list" -> Len(x.items) > 0
      [] OTHER           -> TRUE

(***************************************************************************)
(* Helpers of src/main.py.                                                 *)
(***************************************************************************)
Raise(code, name) ==
    [raised |-> TRUE, status_code |-> code, detail |-> <<name, "array cannot be empty">>]
Return(v) == [raised |-> FALSE, value |-> v]

_safe_mean(values) ==
    Let(LAMBDA present : IF Len(present) = 0 THEN None
                         ELSE RDivInt(RSum(present), Len(present)),
        SelectSeq(values, LAMBDA v : v # None))

_normalize_latest(item, name) ==
    IF item.kind = "None" THEN Return(None)
    ELSE IF item.kind = "list"
         THEN IF Len(item.items) = 0
              THEN Raise(422, name)
              ELSE Return(item.items[Len(item.items)])
         ELSE Return(item.val)

Features(c, a, s, h) ==
    [creatinine |-> c, albumin |-> a, systolic_bp |-> s, heart_rate |-> h]

Column(points, f) == [i \in 1..Len(points) |-> points[i][f]]

_extract_feature_values(r) ==
    IF Truthy(r.kft) \/ Truthy(r.vitals)
    THEN LET kft_one    == _normalize_latest(r.kft, "kft")
             vitals_one == _normalize_latest(r.vitals, "vitals")
         IN  IF kft_one.raised THEN kft_one
             ELSE IF vitals_one.raised THEN vitals_one
             ELSE Return(Features(
                    IF kft_one.value # None THEN kft_one.value.creatinine ELSE None,
                    IF kft_one.value # None THEN kft_one.value.albumin ELSE None,
                    IF vitals_one.value # None THEN vitals_one.value.systolic_bp ELSE None,
                    IF vitals_one.value # None THEN vitals_one.value.heart_rate ELSE None))
    ELSE IF Truthy(r.lab_vitals)
    THEN Return(Features(
            _safe_mean(Column(r.lab_vitals.items, "creatinine")),
            _safe_mean(Column(r.lab_vitals.items, "albumin")),
            _safe_mean(Column(r.lab_vitals.items, "systolic_bp")),
            _safe_mean(Column(r.lab_vitals.items, "heart_rate"))))
    ELSE Return(Features(None, None, None, None))

(***************************************************************************)
(* The risk scorer, _risk_from_request.                                    *)
(***************************************************************************)
\* contributions[name] = v together with probability += v
Add(st, name, v) ==
    Let2(LAMBDA x, y : [contributions |-> Append(x.contributions, [name |-> name, value |-> y]),
                        probability   |-> RAdd(x.probability, y)],
         st, v)

AgeContrib(age) ==
    RMax(Zero, RMin(Rat(20, 100), RMul(Rat(age - 50, 50), Rat(20, 100))))

CreatinineContrib(mean_creatinine) ==
    Let(LAMBDA cr_over : RMax(Zero, RMin(Rat(30, 100), RMul(cr_over, Rat(30, 100)))),
        RMax(Zero, RSub(mean_creatinine, Rat(12, 10))))

SbpContrib(mean_sbp) ==
    IF RGt(mean_sbp, Rat(160, 1)) THEN Rat(20, 100)
    ELSE IF RGt(mean_sbp, Rat(140, 1)) THEN Rat(10, 100)
    ELSE Zero

\* contributions = {"baseline": 0.10}; probability = 0.10
Baseline ==
    [contributions |-> <<[name |-> "baseline", value |-> [n |-> 1, d |-> 10]]>>,
     probability   |-> [n |-> 1, d |-> 10]]

\* if x_contrib > 0: record it
IfPositive(st, name, contrib) ==
    Let(LAMBDA c : IF RGt(c, Zero) THEN Add(st, name, c) ELSE st, contrib)

\* if flag: record the fixed weight
IfFlag(st, flag, name, weight) == IF flag THEN Add(st, name, weight) ELSE st

WithAge(st, age) == IfPositive(st, "age", AgeContrib(age))

WithComorbidities(st, c) ==
    IfFlag(IfFlag(IfFlag(st, c.diabetes_mellitus, "diabetes_mellitus", Rat(20, 100)),
                  c.hypertension, "hypertension", Rat(20, 100)),
           c.anemia, "anemia", Rat(10, 100))

WithCreatinine(st, mean_creatinine) ==
    IF mean_creatinine # None
    THEN IfPositive(st, "creatinine", CreatinineContrib(mean_creatinine))
    ELSE st

WithAlbumin(st, mean_albumin) ==
    IfFlag(st, mean_albumin # None /\ RLt(mean_albumin, Rat(35, 10)),
           "albumin_low", Rat(10, 100))

WithSbp(st, mean_sbp) ==
    IF mean_sbp # None
    THEN IfPositive(st, "systolic_bp", SbpContrib(mean_sbp))
    ELSE st

WithHeartRate(st, mean_hr) ==
    IfFlag(st, mean_hr # None /\ (RGt(mean_hr, Rat(100, 1)) \/ RLt(mean_hr, Rat(55, 1))),
           "heart_rate", Rat(5, 100))

\* the contributions dict (in insertion order) and the running probability
\* after the last feature was looked at
Accumulate(r, f) ==
    WithHeartRate(
        WithSbp(
            WithAlbumin(
                WithCreatinine(
                    WithComorbidities(WithAge(Baseline, r.demographics.age), r.comorbidities),
                    f.creatinine),
                f.albumin),
            f.systolic_bp),
        f.heart_rate)

\* probability = max(0.0, min(0.99, probability))
ClampNoCap(p) == RMax(Zero, p)
Clamp(p) == RMax(Zero, RMin(Rat(99, 100), p))

RiskLevel(probability) ==
    IF RGe(probability, Rat(70, 100)) THEN "High Risk"
    ELSE IF RGe(probability, Rat(40, 100)) THEN "Moderate Risk"
    ELSE "Low Risk"

\* items = [(k, v) for k, v in contributions.items() if k != "baseline"]
ItemsWithBaseline(contributions) == contributions
Items(contributions) == SelectSeq(contributions, LAMBDA kv : kv.name # "baseline")

\* items.sort(key=lambda kv: kv[1], reverse=True): a stable sort, entries
\* of equal value keep their order
InsertAt(sorted, k, e) ==
    Let2(LAMBDA q, x : SubSeq(q, 1, k) \o <<x>> \o SubSeq(q, k + 1, Len(q)), sorted, e)

\* the entry goes before the entries of equal value
InsertDescTiesFirst(sorted, e) ==
    Let2(LAMBDA q, x :
            InsertAt(q, Cardinality({i \in 1..Len(q) : RGt(q[i].value, x.value)}), x),
         sorted, e)

InsertDesc(sorted, e) ==
    Let2(LAMBDA q, x :
            InsertAt(q, Cardinality({i \in 1..Len(q) : RGe(q[i].value, x.value)}), x),
         sorted, e)

RECURSIVE SortDesc(_)
SortDesc(s) ==
    Let(LAMBDA q : IF Len(q) = 0 THEN <<>>
                   ELSE InsertDesc(SortDesc(SubSeq(q, 1, Len(q) - 1)), q[Len(q)]),
        s)

name_map(n) == IF n = "albumin_low" THEN "albumin" ELSE n

\* items[:3]
FirstThree(items) ==
    Let(LAMBDA q : SubSeq(q, 1, IF Len(q) < 3 THEN Len(q) ELSE 3), items)

TopFeatures(contributions) ==
    Let(LAMBDA first :
            Let(LAMBDA names : [i \in 1..Len(names) |-> name_map(names[i])],
                IF Len(first) = 0
                THEN <<"creatinine", "age", "diabetes_mellitus">>
                ELSE [i \in 1..Len(first) |-> first[i].name]),
        FirstThree(SortDesc(Items(contributions))))

In(x, s) == \E i \in 1..Len(s) : s[i] = x

\* if cond: recommendations.append(text)
AppendIf(recommendations, cond, text) ==
    IF cond THEN Append(recommendations, text) ELSE recommendations

\* if not recommendations: the three fallback strings
OrFallback(recommendations) ==
    Let(LAMBDA q : IF Len(q) = 0
                   THEN <<"Maintain healthy lifestyle", "Follow up with primary care",
                          "Repeat labs in 3 months">>
                   ELSE q,
        recommendations)

\* recommendations[:4]
FirstFour(recommendations) ==
    Let(LAMBDA q : SubSeq(q, 1, IF Len(q) < 4 THEN Len(q) ELSE 4), recommendations)

Recommendations(top_features, mean_sbp, risk_level) ==
    FirstFour(OrFallback(
        AppendIf(
            AppendIf(
                AppendIf(
                    AppendIf(
                        AppendIf(<<>>, In("creatinine", top_features),
                                 "Monitor creatinine levels"),
                        In("hypertension", top_features)
                            \/ (mean_sbp # None /\ RGt(mean_sbp, Rat(140, 1))),
                        "Check blood pressure daily"),
                    risk_level = "High Risk", "Schedule nephrology consultation"),
                In("diabetes_mellitus", top_features), "Optimize glycemic control"),
            In("albumin", top_features), "Assess nutrition and albumin levels")))

PredictResponse(risk_level, probability, top_features, recommendations) ==
    [risk_level |-> risk_level, probability |-> probability,
     top_features |-> top_features, recommendations |-> recommendations]

\* from the clamp to the return, given the extracted features f and the
\* accumulated contributions and probability acc
Assess(f, acc) ==
    Let2(LAMBDA probability, top_features :
            Let(LAMBDA risk_level :
                    [raised |-> FALSE, features |-> f,
                     contributions |-> acc.contributions,
                     response |-> PredictResponse(risk_level, Round2(probability),
                                     top_features,
                                     Recommendations(top_features, f.systolic_bp, risk_level))],
                RiskLevel(probability)),
         Clamp(acc.probability), TopFeatures(acc.contributions))

\* The scorer's locals at its return: the extracted features, the
\* contributions dict and the response; or the HTTPException it raised.
ScorerRun(r) ==
    Let(LAMBDA e :
            IF e.raised THEN [raised |-> TRUE, exc |-> e]
            ELSE Let(LAMBDA acc : Assess(e.value, acc), Accumulate(r, e.value)),
        _extract_feature_values(r))

_risk_from_request(r) ==
    Let(LAMBDA result : IF result.raised THEN result.exc ELSE Return(result.response),
        ScorerRun(r))

(***************************************************************************)
(* Requests.                                                               *)
(***************************************************************************)
SeqsUpTo(S, n) == UNION {[1..k -> S] : k \in 0..n}

\* None, a single object, or a sequence of at most MaxLen objects
Shapes(S) == {None} \cup {Obj(v) : v \in S} \cup {List(q) : q \in SeqsUpTo(S, MaxLen)}

Opt(S) == {None} \cup {Rat(v, 10) : v \in S}

KFTInput(c, a) == [creatinine |-> c, albumin |-> a]
VitalsInput(s, h) == [systolic_bp |-> s, heart_rate |-> h]
LabVitalsPoint(c, a, s, h) == Features(c, a, s, h)

\* values in tenths: creatinine and albumin in g/dL resp. mg/dL, pressure in
\* mmHg, heart rate in beats per minute
CreatinineVals == {10, 20, 25}
AlbuminVals == {30, 40}
SbpVals == {1300, 1500, 1700}
HrVals == {450, 900}
Ages == {0, 30, 55, 70, 75, 99, 100, 120}

PredictRequest(pid, age, dm, ht, an, kft, vitals, lab_vitals) ==
    [patient_id |-> pid,
     demographics |-> [age |-> age],
     comorbidities |-> [diabetes_mellitus |-> dm, hypertension |-> ht, anemia |-> an],
     kft |-> kft, vitals |-> vitals, lab_vitals |-> lab_vitals]

\* requests with at most one reading per grouping: every combination of age,
\* comorbidities and present / missing feature values
ScalarRequests ==
    {PredictRequest("p1", age, dm, ht, an, kft, vitals, None) :
        age \in Ages, dm \in BOOLEAN, ht \in BOOLEAN, an \in BOOLEAN,
        kft \in {None} \cup {Obj(KFTInput(c, a)) : c \in Opt(CreatinineVals), a \in Opt(AlbuminVals)},
        vitals \in {None} \cup {Obj(VitalsInput(sb, h)) : sb \in Opt(SbpVals), h \in Opt(HrVals)}}

KftReadings ==
    {KFTInput(Rat(20, 10), None), KFTInput(Rat(10, 10), Rat(30, 10)),
     KFTInput(None, Rat(40, 10))}
VitalsReadings ==
    {VitalsInput(Rat(150, 1), None), VitalsInput(Rat(170, 1), Rat(45, 1)),
     VitalsInput(None, Rat(90, 1))}
LabPoints ==
    {LabVitalsPoint(Rat(10, 10), None, Rat(150, 1), None),
     LabVitalsPoint(Rat(20, 10), Rat(30, 10), None, Rat(45, 1)),
     LabVitalsPoint(None, Rat(40, 10), Rat(170, 1), Rat(90, 1))}
LegacyLists == {None} \cup {List(q) : q \in SeqsUpTo(LabPoints, MaxLen)}

\* requests in every shape the groupings and the legacy list can take
ShapeRequests ==
    {PredictRequest("p1", 70, FALSE, FALSE, FALSE, kft, vitals, lab_vitals) :
        kft \in Shapes(KftReadings), vitals \in Shapes(VitalsReadings),
        lab_vitals \in LegacyLists}

Requests == ScalarRequests \cup ShapeRequests

(***************************************************************************)
(* State.                                                                  *)
(***************************************************************************)
VARIABLES
    req,                \* the request handed to the scorer (scorer runs)
    pc,                 \* "idle", "ready" (request built), "done" (scorer returned)
    run,                \* the scorer's locals and result at its return
    patients,           \* rows of the patients table
    PREDICTIONS_STORE,  \* the in-memory audit trail
    predictions,        \* rows of the predictions table
    last                \* how the last handler call ended

vars == <<req, pc, run, patients, PREDICTIONS_STORE, predictions, last>>
scorerVars == <<req, pc, run>>
apiVars == <<patients, PREDICTIONS_STORE, predictions, last>>

ApiInit ==
    /\ patients = {}
    /\ PREDICTIONS_STORE = <<>>
    /\ predictions = <<>>
    /\ last = None

(***************************************************************************)
(* Runs of the scorer on its own: one request, one call.                   *)
(***************************************************************************)
ScoreInit ==
    /\ req \in Requests
    /\ pc = "ready"
    /\ run = None
    /\ ApiInit

Score ==
    /\ pc = "ready"
    /\ run' = ScorerRun(req)
    /\ pc' = "done"
    /\ UNCHANGED <<req, apiVars>>

ScoreNext == Score

ScoreSpec == ScoreInit /\ [][ScoreNext]_vars

(***************************************************************************)
(* The HTTP handlers.  A handler runs from its first to its last line in   *)
(* one step.                                                               *)
(***************************************************************************)
\* str(uuid.uuid4()): an identifier no row carries yet, here the next one of a
\* fixed enumeration
IdOrder == <<"p1", "p2", "p3">>
PatientIds == {IdOrder[i] : i \in 1..Len(IdOrder)}
UnknownId == "nobody"
uuid4 == IdOrder[Cardinality(patients) + 1]

PatientAges == {40}
Genders == {"Female"}

create_patient(payload) ==
    /\ Cardinality(patients) < MaxPatients
    /\ Cardinality(patients) < Len(IdOrder)
    /\ LET pid == uuid4
       IN  /\ patients' = patients \cup
                 {[patient_id |-> pid, full_name |-> payload.full_name,
                   age |-> payload.age, gender |-> payload.gender]}
           /\ last' = [op |-> "create_patient", patient_id |-> pid, status |-> 201,
                       scored |-> FALSE, conn_closed |-> TRUE, store_failed |-> FALSE,
                       db_failed |-> FALSE, response |-> None]
    /\ UNCHANGED <<PREDICTIONS_STORE, predictions, scorerVars>>

\* SELECT 1 FROM patients WHERE patient_id = ? ... cur.fetchone()
PatientExistsUnchecked(pid) == TRUE
PatientExists(pid) == \E row \in patients : row.patient_id = pid

AuditRecord(payload, response) ==
    [patient_id |-> payload.patient_id, risk_level |-> response.risk_level,
     probability |-> response.probability]

\* how a predict call ended: the status sent, whether the scorer was invoked,
\* whether the call's connection was closed, whether the append to the store
\* and the INSERT / commit raised, and the body returned
Outcome(payload, code, scored, closed, store_failed, db_failed, response) ==
    [op |-> "predict", patient_id |-> payload.patient_id, status |-> code,
     scored |-> scored, conn_closed |-> closed, store_failed |-> store_failed,
     db_failed |-> db_failed, response |-> response]

\* store_fails: PREDICTIONS_STORE.append raises; db_fails: the INSERT or the
\* commit raises
predict(payload, store_fails, db_fails) ==
    /\ Len(PREDICTIONS_STORE) < MaxPredictions
    /\ Len(predictions) < MaxPredictions
    /\ UNCHANGED <<patients, scorerVars>>
    /\ IF ~PatientExists(payload.patient_id)
       THEN \* conn.close(); raise HTTPException(400)
            /\ last' = Outcome(payload, 400, FALSE, TRUE, FALSE, FALSE, None)
            /\ UNCHANGED <<PREDICTIONS_STORE, predictions>>
       ELSE \E response \in {_risk_from_request(payload)} :
                IF response.raised
                THEN \* the HTTPException leaves predict at line 463
                     /\ last' = Outcome(payload, response.status_code, TRUE, FALSE, FALSE, FALSE, None)
                     /\ UNCHANGED <<PREDICTIONS_STORE, predictions>>
                ELSE /\ PREDICTIONS_STORE' =
                            IF store_fails THEN PREDICTIONS_STORE
                            ELSE Append(PREDICTIONS_STORE, AuditRecord(payload, response.value))
                     /\ IF db_fails
                        THEN \* try / finally: conn.close(), the exception goes on
                             /\ predictions' = predictions
                             /\ last' = Outcome(payload, 500, TRUE, TRUE, store_fails, TRUE, None)
                        ELSE /\ predictions' = Append(predictions, AuditRecord(payload, response.value))
                             /\ last' = Outcome(payload, 200, TRUE, TRUE, store_fails, FALSE, response.value)

PatientPayloads ==
    {[full_name |-> "Ada", age |-> a, gender |-> g] : a \in PatientAges, g \in Genders}

\* request bodies sent to /api/v1/predict
PredictBodies ==
    {PredictRequest("p1", 30, FALSE, FALSE, FALSE, None, None, None),
     PredictRequest("p1", 70, TRUE, TRUE, FALSE,
                    Obj(KFTInput(Rat(20, 10), Rat(30, 10))),
                    Obj(VitalsInput(Rat(170, 1), Rat(90, 1))), None),
     PredictRequest("p1", 30, FALSE, FALSE, FALSE, List(<<>>),
                    Obj(VitalsInput(Rat(150, 1), None)), None)}

PredictPayloads ==
    {[b EXCEPT !.patient_id = pid] : b \in PredictBodies, pid \in {"p1", "p2", UnknownId}}

Init ==
    /\ req = None
    /\ pc = "idle"
    /\ run = None
    /\ ApiInit

CreatePatient == \E payload \in PatientPayloads : create_patient(payload)

Predict ==
    \E payload \in PredictPayloads, store_fails \in BOOLEAN, db_fails \in BOOLEAN :
        predict(payload, store_fails, db_fails)

Next == CreatePatient \/ Predict

Spec == Init /\ [][Next]_vars

(***************************************************************************)
(* Properties.                                                             *)
(***************************************************************************)
Scored == pc = "done" /\ ~run.raised
Min2(a, b) == IF a < b THEN a ELSE b
RLe(a, b) == ~RLt(b, a)
RawSum(contributions) == RSum([i \in 1..Len(contributions) |-> contributions[i].value])

\* C1: for every scored request the returned probability lies in [0.00, 0.99].
C1_ProbabilityInRange ==
    Scored => /\ RLe(Zero, run.response.probability)
              /\ RLe(run.response.probability, Rat(99, 100))

\* the contributions add up to more than 0.99 and 0.99 is returned
C1_Witness ==
    /\ Scored
    /\ RGt(RawSum(run.contributions), Rat(99, 100))
    /\ run.response.probability = Rat(99, 100)

\* C2: the returned risk_level is decided by the returned (rounded)
\* probability: High Risk iff >= 0.70, Moderate Risk iff in [0.40, 0.70),
\* Low Risk iff < 0.40.
C2_TierOfReturnedProbability ==
    Scored =>
        LET p == run.response.probability
            t == run.response.risk_level
        IN  /\ (t = "High Risk") <=> RLe(Rat(70, 100), p)
            /\ (t = "Moderate Risk") <=> (RLe(Rat(40, 100), p) /\ RLt(p, Rat(70, 100)))
            /\ (t = "Low Risk") <=> RLt(p, Rat(40, 100))

\* C3: the returned recommendations list has length 3 or 4.
C3_RecommendationsThreeOrFour ==
    Scored => Len(run.response.recommendations) \in {3, 4}

IsEmptyList(x) == x.kind = "list" /\ Len(x.items) = 0

\* C4: a request whose kft or vitals grouping is an empty sequence ends in the
\* validation error '<name> array cannot be empty' and produces no
\* assessment, whatever the other grouping and lab_vitals are.
C4_EmptySequenceRejected ==
    (pc = "done" /\ (IsEmptyList(req.kft) \/ IsEmptyList(req.vitals))) =>
        /\ run.raised
        /\ run.exc.status_code = 422
        /\ run.exc.detail \in {<<"kft", "array cannot be empty">>,
                               <<"vitals", "array cannot be empty">>}

\* C5: when the append to the store or the INSERT / commit fails in predict,
\* the computed response is still returned (status 200).
C5_PersistenceFailureSwallowed ==
    (last # None /\ last.op = "predict" /\ (last.store_failed \/ last.db_failed)) =>
        /\ last.status = 200
        /\ last.response # None

HasRow(pid) == \E row \in patients : row.patient_id = pid

StoredRecordsHaveAPatient ==
    /\ \A i \in 1..Len(PREDICTIONS_STORE) : HasRow(PREDICTIONS_STORE[i].patient_id)
    /\ \A i \in 1..Len(predictions) : HasRow(predictions[i].patient_id)

UnknownPatientStep ==
    (last'.op = "predict" /\ ~HasRow(last'.patient_id)) =>
        /\ last'.status = 400
        /\ ~last'.scored
        /\ PREDICTIONS_STORE' = PREDICTIONS_STORE
        /\ predictions' = predictions

\* C6: a predict call for a patient_id without a row ends with status 400,
\* does not invoke the scorer and appends nothing to the store or the table;
\* every stored prediction record refers to a row of the patients table.
C6_UnknownPatientRejected ==
    [](StoredRecordsHaveAPatient) /\ [][UnknownPatientStep]_vars

\* a call for an unknown patient was rejected while records are stored
C6_Witness ==
    /\ last # None
    /\ last.op = "predict"
    /\ last.status = 400
    /\ ~HasRow(last.patient_id)
    /\ Len(PREDICTIONS_STORE) > 0
    /\ Len(predictions) > 0

Scenario2 ==
    PredictRequest("p1", 70, TRUE, TRUE, FALSE,
                   Obj(KFTInput(Rat(20, 10), Rat(30, 10))),
                   Obj(VitalsInput(Rat(170, 1), Rat(90, 1))), None)

\* C7 (as stated): scenario 2 returns probability 0.99, High Risk and
\* top_features [creatinine, hypertension, systolic_bp].
C7_Scenario2AsStated ==
    (pc = "done" /\ req = Scenario2) =>
        /\ ~run.raised
        /\ run.response.probability = Rat(99, 100)
        /\ run.response.risk_level = "High Risk"
        /\ run.response.top_features = <<"creatinine", "hypertension", "systolic_bp">>

\* C7 (amended): scenario 2 returns probability 0.99, High Risk and
\* top_features [creatinine, diabetes_mellitus, hypertension]: of the three
\* contributions of 0.20 the two inserted first are kept.
C7_Scenario2 ==
    (pc = "done" /\ req = Scenario2) =>
        /\ ~run.raised
        /\ run.response.probability = Rat(99, 100)
        /\ run.response.risk_level = "High Risk"
        /\ run.response.top_features = <<"creatinine", "diabetes_mellitus", "hypertension">>

C7_Witness == pc = "done" /\ req = Scenario2 /\ ~run.raised

FixedOrder ==
    <<"age", "diabetes_mellitus", "hypertension", "anemia", "creatinine", "albumin",
      "systolic_bp", "heart_rate">>
Fallback == <<"creatinine", "age", "diabetes_mellitus">>
Tag(name) == IF name = "albumin_low" THEN "albumin" ELSE name
Pos(tag) == CHOOSE i \in 1..Len(FixedOrder) : FixedOrder[i] = tag
Recorded == SelectSeq(run.contributions, LAMBDA kv : kv.name # "baseline")
Beats(a, b) ==
    \/ RGt(a.value, b.value)
    \/ a.value = b.value /\ Pos(Tag(a.name)) < Pos(Tag(b.name))
Rank(e) == Cardinality({i \in 1..Len(Recorded) : Beats(Recorded[i], e)})

\* top_features is the ranking of the recorded contributions cut after three
RankedTopThree ==
    LET top == run.response.top_features
    IN  /\ Len(top) <= 3
        /\ \A k \in 1..Len(top) : top[k] # "baseline"
        /\ Len(Recorded) = 0 => top = Fallback
        /\ Len(Recorded) > 0 =>
              /\ Len(top) = Min2(3, Len(Recorded))
              /\ \A k \in 1..Len(top) :
                    \E i \in 1..Len(Recorded) :
                        /\ Rank(Recorded[i]) = k - 1
                        /\ top[k] = Tag(Recorded[i].name)

\* C8 (as stated): top_features is the first 3 recorded non-baseline
\* contributions by descending magnitude, ties in the fixed insertion order;
\* it never holds 'baseline', and it is the fallback list exactly when no
\* contribution was recorded.
C8_TopFeaturesAsStated ==
    Scored => /\ RankedTopThree
              /\ (run.response.top_features = Fallback) <=> (Len(Recorded) = 0)

\* C8 (amended): top_features is the first 3 recorded non-baseline
\* contributions by descending magnitude, ties in the fixed insertion order;
\* it never holds 'baseline'; it is the fallback list whenever no
\* contribution was recorded, and names only recorded contributions
\* otherwise (which may be creatinine, age, diabetes_mellitus themselves).
C8_TopFeatures == Scored => RankedTopThree

\* a tie of magnitudes is cut: of two equal contributions the earlier one is
\* returned and the later one is not
C8_Witness ==
    /\ Scored
    /\ \E i, j \in 1..Len(Recorded) :
          /\ i < j
          /\ Recorded[i].value = Recorded[j].value
          /\ In(Tag(Recorded[i].name), run.response.top_features)
          /\ ~In(Tag(Recorded[j].name), run.response.top_features)

Latest(x) == IF x.kind = "list" THEN x.items[Len(x.items)] ELSE x.val

\* what the new-style groupings alone give
NewStyle(r) ==
    IF IsEmptyList(r.kft) THEN Raise(422, "kft")
    ELSE IF IsEmptyList(r.vitals) THEN Raise(422, "vitals")
    ELSE Return(Features(
            IF r.kft = None THEN None ELSE Latest(r.kft).creatinine,
            IF r.kft = None THEN None ELSE Latest(r.kft).albumin,
            IF r.vitals = None THEN None ELSE Latest(r.vitals).systolic_bp,
            IF r.vitals = None THEN None ELSE Latest(r.vitals).heart_rate))

Extracted == IF run.raised THEN run.exc ELSE Return(run.features)

\* C9: when kft or vitals is present (non-null) and lab_vitals is supplied,
\* the extracted features come from the new-style groupings only, and no other
\* lab_vitals list would change the extraction result.
C9_LegacyIgnored ==
    (pc = "done" /\ (req.kft # None \/ req.vitals # None) /\ req.lab_vitals # None) =>
        /\ Extracted = NewStyle(req)
        /\ \A lv \in LegacyLists :
              _extract_feature_values([req EXCEPT !.lab_vitals = lv]) = Extracted

\* C10: no predict call ends with its SQLite connection open.
C10_ConnectionClosed ==
    (last # None /\ last.op = "predict") => last.conn_closed

====
